---------------------------- MODULE Spec2Model ----------------------------
(***************************************************************************)
(* Upper half of the power LED character driver                            *)
(* (drivers/power/powerled.c): the reference-counted open/close lifecycle  *)
(* guarded by dev->closesem, and the command dispatcher powerled_ioctl.    *)
(*                                                                         *)
(* Every thread runs one driver call at a time.  pc[t] is the statement    *)
(* the thread is about to execute; one action is one statement (or one     *)
(* call into the lower half), so every interleaving of the driver's        *)
(* statements on preemptive threads is a behaviour of the model.           *)
(***************************************************************************)
EXTENDS Integers, Sequences, FiniteSets

(***************************************************************************)
(* Bounds of the model.                                                    *)
(***************************************************************************)
NThreads == 2        \* threads sharing the device
MaxFd == 2           \* an open is started only below this many open files
Cap == 3             \* the call counters setups/shutdowns saturate here
ManyOpens == 257     \* open files a single caller may hold in SpecMany

Threads == 1..NThreads

\* The thread that registers the device when the board is brought up.
Registrar == CHOOSE t \in Threads : \A u \in Threads : t <= u

(***************************************************************************)
(* Program constants.                                                      *)
(***************************************************************************)
OK == 0
EPERM == 1
EINTR == 4
EMFILE == 24
UINT8 == 256
POWERLED_OPMODE_CONTINUOUS == 1
POWERLED_OPMODE_FLASH == 2

\* Status values a lower-half operation may hand back (an int, passed
\* through): OK, and ERROR, which is -1 and so equal to -EPERM.
LowerStatus == {OK, 0 - EPERM}
\* errno left by a sem_wait that was interrupted while blocked.
WaitErrnos == {EINTR}

VARIABLES
  ocount,     \* dev->ocount (uint8_t)
  closesem,   \* dev->closesem: the semaphore's count (1 available, 0 taken)
  critsec,    \* thread inside enter/leave_critical_section, 0 if none
  hw,         \* lower half: outcome of the last lifecycle call
  limits,     \* powerled->limits: [lock, current]
  opmode,     \* powerled->opmode
  param,      \* powerled->param: [lock]
  regpc,      \* powerled_register: next statement, or its outcome
  ops,        \* dev->ops: the operations that are set (not NULL)
  semlive,    \* dev->closesem as an object: "uninit", "init", "destroyed"
  pc,         \* per thread: next statement
  op,         \* per thread: driver entry point being executed
  cmd,        \* per thread: ioctl cmd
  arg,        \* per thread: ioctl arg
  tmp,        \* per thread: powerled_open's local tmp
  ret,        \* per thread: the local ret
  rv,         \* per thread: value returned to the caller
  pre,        \* ghost, per thread: <<ocount when the guard was acquired>>
  did,        \* ghost, per thread: lower-half operations invoked by this call
  lower,      \* ghost, per thread: <<status the lower-half operation returned>>
  expect,     \* ghost, per thread: what the command table says of the call
  atcall,     \* ghost, per thread, while its lower-half operation runs:
              \* did the command's precondition hold when it was invoked
  nfd,        \* ghost: open files (opens returned OK, close not yet called)
  setups,     \* ghost: setup invocations, saturating at Cap
  shutdowns,  \* ghost: shutdown invocations, saturating at Cap
  scen        \* ghost: "opening", "closing" or "off" (see OpenCall/CloseCall)

vars == <<ocount, closesem, critsec, hw, limits, opmode, param, regpc, ops,
          semlive, pc, op, cmd, arg, tmp, ret, rv, pre, did, lower, expect,
          atcall, nfd, setups, shutdowns, scen>>

lifeVars == <<ocount, closesem, critsec, hw>>
ctrlVars == <<limits, opmode, param>>
regVars == <<regpc, ops, semlive>>
ioctlLocals == <<cmd, arg, expect>>
scenVars == <<setups, shutdowns, scen>>

Sat(n) == IF n < Cap THEN n + 1 ELSE Cap

\* The scenario ghosts after a step: the calls are counted only while the
\* history is still the scenario (scen is not "off").
Scenario(s, a, b) ==
  /\ scen' = s
  /\ setups' = IF s = "off" THEN 0 ELSE a
  /\ shutdowns' = IF s = "off" THEN 0 ELSE b

\* The twelve operations of struct powerled_ops_s that powerled_open,
\* powerled_close and powerled_ioctl call.
RequiredOps == {"setup", "shutdown", "stop", "start", "params_set",
                "mode_set", "limits_set", "fault_set", "state_get",
                "fault_get", "fault_clean", "ioctl"}

\* The control block as one value.
Block == [limits |-> limits, opmode |-> opmode, param |-> param]

(***************************************************************************)
(* The callers and the lower half before any call: no thread is inside the *)
(* driver, the control block of the lower half is zeroed, fds files are    *)
(* open.                                                                   *)
(***************************************************************************)
InitCallers(oc, fds) ==
  /\ critsec = 0
  /\ hw = IF oc > 0 THEN "live" ELSE "none"
  /\ limits = [lock |-> FALSE, current |-> 0]
  /\ opmode = 0
  /\ param = [lock |-> FALSE]
  /\ pc = [t \in Threads |-> "idle"]
  /\ op = [t \in Threads |-> "none"]
  /\ cmd = [t \in Threads |-> "none"]
  /\ arg = [t \in Threads |-> 0]
  /\ tmp = [t \in Threads |-> 0]
  /\ ret = [t \in Threads |-> OK]
  /\ rv = [t \in Threads |-> OK]
  /\ pre = [t \in Threads |-> <<>>]
  /\ did = [t \in Threads |-> <<>>]
  /\ lower = [t \in Threads |-> <<>>]
  /\ expect = [t \in Threads |-> "none"]
  /\ atcall = [t \in Threads |-> "none"]
  /\ nfd = fds
  /\ setups = 0
  /\ shutdowns = 0
  /\ scen = IF oc = 0 /\ fds = 0 THEN "opening" ELSE "off"

(***************************************************************************)
(* State after powerled_register: ocount = 0, closesem = 1, the device is  *)
(* exposed with every operation set.                                       *)
(***************************************************************************)
InitWith(oc, fds) ==
  /\ ocount = oc
  /\ closesem = 1
  /\ regpc = "exposed"
  /\ ops = RequiredOps
  /\ semlive = "init"
  /\ InitCallers(oc, fds)

Init == InitWith(0, 0)

(***************************************************************************)
(* powerled_register                                                       *)
(***************************************************************************)

\* Mutant: the last operation is not checked.
CheckOrder_Short ==
  <<"setup", "shutdown", "stop", "start", "params_set", "mode_set",
    "limits_set", "fault_set", "state_get", "fault_get", "fault_clean">>

\* The operations in the order powerled_register asserts them.
CheckOrder ==
  <<"setup", "shutdown", "stop", "start", "params_set", "mode_set",
    "limits_set", "fault_set", "state_get", "fault_get", "fault_clean",
    "ioctl">>

\* The statement after the assertion of the i-th operation.
AfterCheck(i) == IF i < Len(CheckOrder) THEN CheckOrder[i + 1] ELSE "r_init"

\* DEBUGASSERT(f): a failed assertion is fatal, the call does not go on
\* (the fatal precondition path).
DEBUGASSERT(f, next) == IF f THEN next ELSE "panic"

\* Status values of register_driver: OK, or a negated errno.
RegisterStatus == {OK, 0 - EMFILE}

\* Everything powerled_register leaves alone.
callVars == <<critsec, hw, ctrlVars, pc, op, ioctlLocals, tmp, pre, did,
              lower, atcall, nfd, scenVars>>

\* DEBUGASSERT(dev->ops-><operation> != NULL), one operation at a time;
\* regpc names the operation about to be checked.
RegAssert ==
  /\ \E i \in 1..Len(CheckOrder) :
       /\ regpc = CheckOrder[i]
       /\ regpc' = DEBUGASSERT(CheckOrder[i] \in ops, AfterCheck(i))
  /\ UNCHANGED <<ocount, closesem, ops, semlive, ret, rv, callVars>>

\* dev->ocount = 0
RegInit ==
  /\ regpc = "r_init"
  /\ ocount' = 0
  /\ regpc' = "r_sem"
  /\ UNCHANGED <<closesem, ops, semlive, ret, rv, callVars>>

\* nxsem_init(&dev->closesem, 0, 1); dev->lower = lower
RegSemInit ==
  /\ regpc = "r_sem"
  /\ closesem' = 1
  /\ semlive' = "init"
  /\ regpc' = "r_register"
  /\ UNCHANGED <<ocount, ops, ret, rv, callVars>>

\* ret = register_driver(path, &powerled_fops, 0444, dev); on success the
\* device is exposed and ret is returned.
RegDriver ==
  /\ regpc = "r_register"
  /\ \E r \in RegisterStatus :
       /\ ret' = [ret EXCEPT ![Registrar] = r]
       /\ IF r < 0
            THEN /\ regpc' = "r_destroy"
                 /\ rv' = rv
            ELSE /\ regpc' = "exposed"
                 /\ rv' = [rv EXCEPT ![Registrar] = r]
  /\ UNCHANGED <<ocount, closesem, ops, semlive, callVars>>

\* sem_destroy(&dev->closesem); return ret.
RegDestroy ==
  /\ regpc = "r_destroy"
  /\ semlive' = "destroyed"
  /\ rv' = [rv EXCEPT ![Registrar] = ret[Registrar]]
  /\ regpc' = "failed"
  /\ UNCHANGED <<ocount, closesem, ops, ret, callVars>>

\* powerled_register called on a device structure with any content, and an
\* operations table that is complete, or lacks one operation, or is empty.
OpsInputs ==
  {RequiredOps, {}} \cup {RequiredOps \ {f} : f \in RequiredOps}

InitReg ==
  /\ ocount \in {0, 1, UINT8 - 1}
  /\ closesem \in {0, 1}
  /\ regpc = CheckOrder[1]
  /\ ops \in OpsInputs
  /\ semlive = "uninit"
  /\ InitCallers(0, 0)

NextReg == RegAssert \/ RegInit \/ RegSemInit \/ RegDriver \/ RegDestroy

SpecReg == InitReg /\ [][NextReg]_vars

(***************************************************************************)
(* powerled_open                                                           *)
(***************************************************************************)

\* The file system calls powerled_open (the model starts one only below
\* maxfd open files).  scen stays "opening" while no close has been called.
OpenCallUpTo(t, maxfd) ==
  /\ pc[t] = "idle"
  /\ nfd < maxfd
  /\ pc' = [pc EXCEPT ![t] = "o_wait"]
  /\ op' = [op EXCEPT ![t] = "open"]
  /\ ret' = [ret EXCEPT ![t] = OK]
  /\ Scenario(IF scen = "opening" THEN "opening" ELSE "off", setups, shutdowns)
  /\ UNCHANGED <<lifeVars, ctrlVars, ioctlLocals, tmp, rv, pre, did, lower,
                 nfd, regVars, atcall>>

OpenCall(t) == OpenCallUpTo(t, MaxFd)

\* Mutant: the wait returns OK without taking the semaphore.
SemWait_NoTake(s) == s

\* sem_wait on a semaphore of value s > 0 leaves s - 1.
SemWait(s) == s - 1

\* Mutant: the post is lost.
SemPost_Lost(s) == s

\* sem_post on a semaphore of value s leaves s + 1.
SemPost(s) == s + 1

\* sem_wait(&dev->closesem) returns OK: the guard is taken.
OpenWaitOK(t) ==
  /\ pc[t] = "o_wait"
  /\ closesem > 0
  /\ closesem' = SemWait(closesem)
  /\ pre' = [pre EXCEPT ![t] = <<ocount>>]
  /\ pc' = [pc EXCEPT ![t] = "o_tmp"]
  /\ UNCHANGED <<ocount, critsec, hw, ctrlVars, op, ioctlLocals, tmp, ret, rv,
                 did, lower, nfd, scenVars, regVars, atcall>>

\* Mutant: powerled_open returns its local ret.
OpenResult_Ret(r) == r

\* return OK: what powerled_open returns when its local ret is r.
OpenResult(r) == OK

\* sem_wait fails, interrupted while blocked on the taken guard:
\* ret = -errno; return.
OpenWaitFail(t) ==
  /\ pc[t] = "o_wait"
  /\ closesem = 0
  /\ \E e \in WaitErrnos : ret' = [ret EXCEPT ![t] = 0 - e]
  /\ rv' = [rv EXCEPT ![t] = OpenResult(ret'[t])]
  /\ pc' = [pc EXCEPT ![t] = "done"]
  /\ Scenario("off", 0, 0)
  /\ UNCHANGED <<lifeVars, ctrlVars, op, ioctlLocals, tmp, pre, did, lower,
                 nfd, regVars, atcall>>

\* tmp = dev->ocount + 1, in uint8_t.
NextCount(oc) == (oc + 1) % UINT8

\* tmp = dev->ocount + 1 and the dispatch on tmp: overflow, first open, other.
OpenTmp(t) ==
  /\ pc[t] = "o_tmp"
  /\ tmp' = [tmp EXCEPT ![t] = NextCount(ocount)]
  /\ IF NextCount(ocount) = 0
       THEN /\ ret' = [ret EXCEPT ![t] = 0 - EMFILE]
            /\ pc' = [pc EXCEPT ![t] = "o_post"]
       ELSE IF NextCount(ocount) = 1
         THEN /\ pc' = [pc EXCEPT ![t] = "o_enter"]
              /\ ret' = ret
         ELSE /\ pc' = [pc EXCEPT ![t] = "o_post"]
              /\ ret' = ret
  /\ UNCHANGED <<lifeVars, ctrlVars, op, ioctlLocals, rv, pre, did, lower,
                 nfd, scenVars, regVars, atcall>>

\* enter_critical_section(), then dev->ops->setup(dev) is invoked.
OpenEnter(t) ==
  /\ pc[t] = "o_enter"
  /\ critsec = 0
  /\ critsec' = t
  /\ did' = [did EXCEPT ![t] = Append(@, <<"setup", 0>>)]
  /\ Scenario(scen, Sat(setups), shutdowns)
  /\ pc' = [pc EXCEPT ![t] = "o_setup"]
  /\ UNCHANGED <<ocount, closesem, hw, ctrlVars, op, ioctlLocals, tmp, ret,
                 rv, pre, lower, nfd, regVars, atcall>>

\* Mutant: the new count is saved whatever setup returned.
CountAfterSetup_Always(oc, newcount, r) == newcount

\* The open count after setup returned r: saved on success only.
CountAfterSetup(oc, newcount, r) == IF r = OK THEN newcount ELSE oc

\* setup returns r; if (ret == OK) dev->ocount = tmp.
OpenSetupReturn(t) ==
  /\ pc[t] = "o_setup"
  /\ \E r \in LowerStatus :
       /\ ret' = [ret EXCEPT ![t] = r]
       /\ lower' = [lower EXCEPT ![t] = <<r>>]
       /\ ocount' = CountAfterSetup(ocount, tmp[t], r)
       /\ hw' = IF r = OK THEN "live" ELSE "failed"
       /\ Scenario(IF r = OK THEN scen ELSE "off", setups, shutdowns)
  /\ pc' = [pc EXCEPT ![t] = "o_leave"]
  /\ UNCHANGED <<closesem, critsec, ctrlVars, op, ioctlLocals, tmp, rv, pre,
                 did, nfd, regVars, atcall>>

\* leave_critical_section(flags).
OpenLeave(t) ==
  /\ pc[t] = "o_leave"
  /\ critsec' = 0
  /\ pc' = [pc EXCEPT ![t] = "o_post"]
  /\ UNCHANGED <<ocount, closesem, hw, ctrlVars, op, ioctlLocals, tmp, ret,
                 rv, pre, did, lower, nfd, scenVars, regVars, atcall>>

\* sem_post(&dev->closesem); return.
OpenPost(t) ==
  /\ pc[t] = "o_post"
  /\ closesem' = SemPost(closesem)
  /\ rv' = [rv EXCEPT ![t] = OpenResult(ret[t])]
  /\ pc' = [pc EXCEPT ![t] = "done"]
  /\ UNCHANGED <<ocount, critsec, hw, ctrlVars, op, ioctlLocals, tmp, ret,
                 pre, did, lower, nfd, scenVars, regVars, atcall>>

(***************************************************************************)
(* powerled_close                                                          *)
(***************************************************************************)

\* The file system calls powerled_close on an open file, which is gone
\* whatever the driver returns.  scen becomes "closing" at the first close
\* when every open has returned.
CloseCall(t) ==
  /\ pc[t] = "idle"
  /\ nfd > 0
  /\ nfd' = nfd - 1
  /\ pc' = [pc EXCEPT ![t] = "c_wait"]
  /\ op' = [op EXCEPT ![t] = "close"]
  /\ ret' = [ret EXCEPT ![t] = OK]
  /\ Scenario(IF scen = "off" \/ \E u \in Threads : op[u] = "open"
                THEN "off" ELSE "closing", setups, shutdowns)
  /\ UNCHANGED <<lifeVars, ctrlVars, ioctlLocals, tmp, rv, pre, did, lower,
                 regVars, atcall>>

CloseWaitOK(t) ==
  /\ pc[t] = "c_wait"
  /\ closesem > 0
  /\ closesem' = SemWait(closesem)
  /\ pre' = [pre EXCEPT ![t] = <<ocount>>]
  /\ pc' = [pc EXCEPT ![t] = "c_count"]
  /\ UNCHANGED <<ocount, critsec, hw, ctrlVars, op, ioctlLocals, tmp, ret, rv,
                 did, lower, nfd, scenVars, regVars, atcall>>

\* return ret: what powerled_close returns when its local ret is r.
CloseResult(r) == r

CloseWaitFail(t) ==
  /\ pc[t] = "c_wait"
  /\ closesem = 0
  /\ \E e \in WaitErrnos : ret' = [ret EXCEPT ![t] = 0 - e]
  /\ rv' = [rv EXCEPT ![t] = CloseResult(ret'[t])]
  /\ pc' = [pc EXCEPT ![t] = "done"]
  /\ Scenario("off", 0, 0)
  /\ UNCHANGED <<lifeVars, ctrlVars, op, ioctlLocals, tmp, pre, did, lower,
                 nfd, regVars, atcall>>

\* Mutant: every close decrements, the last-reference branch is never taken.
NotLast_Always(oc) == TRUE

\* if (dev->ocount > 1): is this close one of several references?
NotLast(oc) == oc > 1

\* if (dev->ocount > 1) dev->ocount--; else dev->ocount = 0 (then shutdown).
CloseCount(t) ==
  /\ pc[t] = "c_count"
  /\ IF NotLast(ocount)
       THEN /\ ocount' = (ocount - 1) % UINT8
            /\ pc' = [pc EXCEPT ![t] = "c_post"]
       ELSE /\ ocount' = 0
            /\ pc' = [pc EXCEPT ![t] = "c_enter"]
  /\ UNCHANGED <<closesem, critsec, hw, ctrlVars, op, ioctlLocals, tmp, ret,
                 rv, pre, did, lower, nfd, scenVars, regVars, atcall>>

\* enter_critical_section(), then dev->ops->shutdown(dev) is invoked.
CloseEnter(t) ==
  /\ pc[t] = "c_enter"
  /\ critsec = 0
  /\ critsec' = t
  /\ did' = [did EXCEPT ![t] = Append(@, <<"shutdown", 0>>)]
  /\ Scenario(scen, setups, Sat(shutdowns))
  /\ pc' = [pc EXCEPT ![t] = "c_shutdown"]
  /\ UNCHANGED <<ocount, closesem, hw, ctrlVars, op, ioctlLocals, tmp, ret,
                 rv, pre, lower, nfd, regVars, atcall>>

\* shutdown returns; its value is discarded.
CloseShutdownReturn(t) ==
  /\ pc[t] = "c_shutdown"
  /\ hw' = "down"
  /\ pc' = [pc EXCEPT ![t] = "c_leave"]
  /\ UNCHANGED <<ocount, closesem, critsec, ctrlVars, op, ioctlLocals, tmp,
                 ret, rv, pre, did, lower, nfd, scenVars, regVars, atcall>>

CloseLeave(t) ==
  /\ pc[t] = "c_leave"
  /\ critsec' = 0
  /\ pc' = [pc EXCEPT ![t] = "c_post"]
  /\ UNCHANGED <<ocount, closesem, hw, ctrlVars, op, ioctlLocals, tmp, ret,
                 rv, pre, did, lower, nfd, scenVars, regVars, atcall>>

\* sem_post(&dev->closesem); return ret.
ClosePost(t) ==
  /\ pc[t] = "c_post"
  /\ closesem' = SemPost(closesem)
  /\ rv' = [rv EXCEPT ![t] = CloseResult(ret[t])]
  /\ pc' = [pc EXCEPT ![t] = "done"]
  /\ UNCHANGED <<ocount, critsec, hw, ctrlVars, op, ioctlLocals, tmp, ret,
                 pre, did, lower, nfd, scenVars, regVars, atcall>>

(***************************************************************************)
(* powerled_ioctl                                                          *)
(***************************************************************************)
Cmds == {"PWRIOC_START", "PWRIOC_SET_MODE", "PWRIOC_SET_LIMITS"}

\* Mutant: powerled_ioctl reports success whatever the operation returned.
IoctlResult_Swallow(r) == OK

\* errout: return ret.
IoctlResult(r) == r

\* A float: a number, or NaN.  Every ordered comparison with NaN is false.
Num(v) == [nan |-> FALSE, v |-> v]
NaN == [nan |-> TRUE, v |-> 0]
FLess(x, y) == ~x.nan /\ ~y.nan /\ x.v < y.v

\* Arguments the callers pass: a mode byte (as unsigned long), or the
\* current of the caller's powerled_limits_s, or the caller's
\* powerled_params_s.
ModeArgs == {2, 257}
LimitArgs == {0, 5}
ParamsOf(b, f, d) == [brightness |-> b, frequency |-> f, duty |-> d]
ParamArgs ==
  {ParamsOf(Num(50), Num(1000), Num(50)), ParamsOf(Num(0), Num(0), Num(100)),
   ParamsOf(Num(101), Num(1000), Num(50)), ParamsOf(Num(0 - 1), Num(0), Num(0)),
   ParamsOf(Num(50), Num(0 - 1), Num(50)), ParamsOf(Num(50), Num(1000), Num(101)),
   ParamsOf(Num(50), Num(1000), Num(0 - 1)), ParamsOf(NaN, Num(1000), Num(50)),
   ParamsOf(Num(50), NaN, Num(50)), ParamsOf(Num(50), Num(1000), NaN)}
\* A fault byte or the address of the caller's state or fault byte, as
\* unsigned long: one that fits a byte and one that does not.
WordArgs == {3, 259}
\* The two parameter sets of the command table's examples (brightness 50
\* and brightness 101), for the specifications that mix SET_PARAMS with
\* other calls.
ExampleParams ==
  {ParamsOf(Num(50), Num(1000), Num(50)),
   ParamsOf(Num(101), Num(1000), Num(50))}
ArgsOf(c) ==
  IF c = "PWRIOC_SET_MODE" THEN ModeArgs
  ELSE IF c = "PWRIOC_SET_LIMITS" THEN LimitArgs
  ELSE IF c = "PWRIOC_SET_PARAMS" THEN ParamArgs
  ELSE IF c \in {"PWRIOC_START", "PWRIOC_STOP"} THEN {0}
  ELSE WordArgs

\* switch (cmd): the first statement of each case.
Entry(c) ==
  IF c = "PWRIOC_START" THEN "s_lock"
  ELSE IF c = "PWRIOC_SET_MODE" THEN "m_call"
  ELSE IF c = "PWRIOC_SET_LIMITS" THEN "l_lock"
  ELSE IF c = "PWRIOC_SET_PARAMS" THEN "p_lock"
  ELSE IF c = "PWRIOC_STOP" THEN "st_call"
  ELSE IF c = "PWRIOC_GET_STATE" THEN "gs_call"
  ELSE IF c = "PWRIOC_SET_FAULT" THEN "sf_call"
  ELSE IF c = "PWRIOC_GET_FAULT" THEN "gf_call"
  ELSE IF c = "PWRIOC_CLEAN_FAULT" THEN "cf_call"
  ELSE "x_call"

\* The command table's preconditions (what a caller is told to expect):
\* START needs the limits locked with a current above 0 and the mode
\* CONTINUOUS or FLASH; SET_LIMITS needs the limits not locked.
StartDenied(b) ==
  \/ ~b.limits.lock
  \/ b.limits.current <= 0
  \/ b.opmode \notin {POWERLED_OPMODE_CONTINUOUS, POWERLED_OPMODE_FLASH}

LimitsDenied(b) == b.limits.lock

\* SET_PARAMS needs the params not locked, brightness and duty in [0,100]
\* and frequency >= 0.  NaN is in no interval.
Within(x, lo, hi) == ~x.nan /\ lo <= x.v /\ x.v <= hi
AtLeast(x, lo) == ~x.nan /\ lo <= x.v

ParamsDenied(b, a) ==
  \/ b.param.lock
  \/ ~Within(a.brightness, 0, 100)
  \/ ~AtLeast(a.frequency, 0)
  \/ ~Within(a.duty, 0, 100)

\* Ghost: the table's verdict on command c with argument a issued on
\* control block b.
Verdict(c, b, a) ==
  IF c = "PWRIOC_START" THEN (IF StartDenied(b) THEN "deny" ELSE "allow")
  ELSE IF c = "PWRIOC_SET_LIMITS"
    THEN (IF LimitsDenied(b) THEN "deny" ELSE "allow")
  ELSE IF c = "PWRIOC_SET_PARAMS"
    THEN (IF ParamsDenied(b, a) THEN "deny" ELSE "allow")
  ELSE "allow"

\* A caller holding an open file issues command c with one of the
\* arguments as; expect is the verdict on the control block of that moment.
IoctlIssue(t, c, as) ==
  /\ pc[t] = "idle"
  /\ nfd > 0
  /\ \E a \in as :
       /\ cmd' = [cmd EXCEPT ![t] = c]
       /\ arg' = [arg EXCEPT ![t] = a]
       /\ expect' = [expect EXCEPT ![t] = Verdict(c, Block, a)]
       /\ pc' = [pc EXCEPT ![t] = Entry(c)]
  /\ op' = [op EXCEPT ![t] = "ioctl"]
  /\ UNCHANGED <<lifeVars, ctrlVars, tmp, ret, rv, pre, did, lower, nfd,
                 scenVars, regVars, atcall>>

\* One of the commands cs, with any of its arguments.
IoctlCallOf(t, cs) == \E c \in cs : IoctlIssue(t, c, ArgsOf(c))

IoctlCall(t) == IoctlCallOf(t, Cmds)

\* Mutant: the rejection does not leave the switch, it goes on to a call.
AfterReject_FallThrough == "s_call"

\* goto errout: the statement after a rejection is the return.
AfterReject == "done"

\* ret = -EPERM; goto errout; return ret.
Reject(t) ==
  /\ ret' = [ret EXCEPT ![t] = 0 - EPERM]
  /\ rv' = [rv EXCEPT ![t] = IoctlResult(0 - EPERM)]
  /\ pc' = [pc EXCEPT ![t] = AfterReject]

\* The test passed: go on to statement `next`.
Pass(t, next) ==
  /\ pc' = [pc EXCEPT ![t] = next]
  /\ UNCHANGED <<ret, rv>>

\* Frame of a step that only tests the control block.
TestOnly ==
  UNCHANGED <<lifeVars, ctrlVars, op, ioctlLocals, tmp, pre, did, lower, nfd,
              scenVars, regVars, atcall>>

\* dev->ops-><f>(dev, a) is invoked by thread t, which goes to `running`.
\* atcall notes what the command table says of the control block of this
\* instant.
Invoke(t, f, a, running) ==
  /\ did' = [did EXCEPT ![t] = Append(@, <<f, a>>)]
  /\ atcall' = [atcall EXCEPT ![t] = Verdict(cmd[t], Block, arg[t])]
  /\ pc' = [pc EXCEPT ![t] = running]
  /\ UNCHANGED <<lifeVars, ctrlVars, op, ioctlLocals, tmp, ret, rv, pre,
                 lower, nfd, scenVars, regVars>>

\* Statements of powerled_ioctl that test the control block.
TestPcs == {"s_lock", "s_cur", "s_mode", "l_lock", "p_lock"}

\* Thread t changes the control block to (l, m) while thread u has not
\* finished testing it: u no longer tests the block it was called with, and
\* the verdict of the call no longer applies.
Disturbs(t, u, l, m, p) ==
  u # t /\ pc[u] \in TestPcs /\ <<l, m, p>> # <<limits, opmode, param>>

\* The lower-half operation of thread t returns r, leaving the control block
\* as (l, m, p); ret = r, break, return ret.  Other threads inside
\* powerled_ioctl see the control block change under them.
ReturnedBlock(t, r, l, m, p) ==
  /\ ret' = [ret EXCEPT ![t] = r]
  /\ rv' = [rv EXCEPT ![t] = IoctlResult(r)]
  /\ lower' = [lower EXCEPT ![t] = <<r>>]
  /\ limits' = l
  /\ opmode' = m
  /\ param' = p
  /\ expect' = [u \in Threads |->
                  IF Disturbs(t, u, l, m, p) THEN "disturbed" ELSE expect[u]]
  /\ atcall' = [atcall EXCEPT ![t] = "none"]
  /\ pc' = [pc EXCEPT ![t] = "done"]
  /\ UNCHANGED <<lifeVars, op, cmd, arg, tmp, pre, did, nfd, scenVars,
                 regVars>>

\* The same, for an operation that leaves powerled->param alone.
Returned(t, r, l, m) == ReturnedBlock(t, r, l, m, param)

(* PWRIOC_START *)

\* powerled->limits.lock == false
StartLockBad(l) == l.lock = FALSE

\* Mutant: a current of 0 passes the test.
StartCurrentBad_Strict(l) == l.current < 0

\* powerled->limits.current <= 0
StartCurrentBad(l) == l.current <= 0

\* opmode != POWERLED_OPMODE_CONTINUOUS && opmode != POWERLED_OPMODE_FLASH
StartModeBad(m) ==
  m # POWERLED_OPMODE_CONTINUOUS /\ m # POWERLED_OPMODE_FLASH

StartCheckLock(t) ==
  /\ pc[t] = "s_lock"
  /\ IF StartLockBad(limits)
       THEN Reject(t)
       ELSE Pass(t, "s_cur")
  /\ TestOnly

StartCheckCurrent(t) ==
  /\ pc[t] = "s_cur"
  /\ IF StartCurrentBad(limits)
       THEN Reject(t)
       ELSE Pass(t, "s_mode")
  /\ TestOnly

StartCheckMode(t) ==
  /\ pc[t] = "s_mode"
  /\ IF StartModeBad(opmode)
       THEN Reject(t)
       ELSE Pass(t, "s_call")
  /\ TestOnly

StartCall(t) ==
  /\ pc[t] = "s_call"
  /\ Invoke(t, "start", 0, "s_run")

\* ops->start returns; what it does to the hardware is not part of the
\* control block.
StartRun(t) ==
  /\ pc[t] = "s_run"
  /\ \E r \in LowerStatus : Returned(t, r, limits, opmode)

(* PWRIOC_SET_MODE *)

\* uint8_t mode = ((uint8_t)arg)
ModeOfArg(a) == a % UINT8

ModeCall(t) ==
  /\ pc[t] = "m_call"
  /\ Invoke(t, "mode_set", ModeOfArg(arg[t]), "m_run")

\* ops->mode_set(dev, mode): stores the mode and returns OK, or refuses.
ModeRun(t) ==
  /\ pc[t] = "m_run"
  /\ \/ Returned(t, OK, limits, ModeOfArg(arg[t]))
     \/ \E r \in LowerStatus \ {OK} : Returned(t, r, limits, opmode)

(* PWRIOC_SET_LIMITS *)

\* Mutant: the lock is not tested.
LimitsLocked_Never(l) == FALSE

\* powerled->limits.lock == true
LimitsLocked(l) == l.lock = TRUE

LimitsCheckLock(t) ==
  /\ pc[t] = "l_lock"
  /\ IF LimitsLocked(limits)
       THEN Reject(t)
       ELSE Pass(t, "l_call")
  /\ TestOnly

LimitsCall(t) ==
  /\ pc[t] = "l_call"
  /\ Invoke(t, "limits_set", arg[t], "l_run")

\* ops->limits_set(dev, limits): "this call must set the powerled_limits_s
\* structure".  It stores the caller's current and may latch the lock, and
\* returns OK; or it refuses and changes nothing.  A set lock stays set.
LimitsRun(t) ==
  /\ pc[t] = "l_run"
  /\ \/ \E k \in {limits.lock, TRUE} :
          Returned(t, OK, [lock |-> k, current |-> arg[t]], opmode)
     \/ \E r \in LowerStatus \ {OK} : Returned(t, r, limits, opmode)

(* PWRIOC_SET_PARAMS *)

\* powerled->param.lock == true
ParamsLocked(p) == p.lock = TRUE

\* brightness < 0.0 || brightness > 100.0 || frequency < 0.0 ||
\* duty < 0.0 || duty > 100.0
ParamsRangeBad(a) ==
  \/ FLess(a.brightness, Num(0)) \/ FLess(Num(100), a.brightness)
  \/ FLess(a.frequency, Num(0))
  \/ FLess(a.duty, Num(0)) \/ FLess(Num(100), a.duty)

ParamsCheckLock(t) ==
  /\ pc[t] = "p_lock"
  /\ IF ParamsLocked(param)
       THEN Reject(t)
       ELSE Pass(t, "p_range")
  /\ TestOnly

ParamsCheckRange(t) ==
  /\ pc[t] = "p_range"
  /\ IF ParamsRangeBad(arg[t])
       THEN Reject(t)
       ELSE Pass(t, "p_call")
  /\ TestOnly

ParamsCall(t) ==
  /\ pc[t] = "p_call"
  /\ Invoke(t, "params_set", arg[t], "p_run")

\* ops->params_set(dev, params): takes the parameters and may latch the
\* lock, and returns OK; or it refuses and changes nothing.  A set lock
\* stays set.
ParamsRun(t) ==
  /\ pc[t] = "p_run"
  /\ \/ \E k \in {param.lock, TRUE} :
          ReturnedBlock(t, OK, limits, opmode, [lock |-> k])
     \/ \E r \in LowerStatus \ {OK} : Returned(t, r, limits, opmode)

(* PWRIOC_STOP *)

StopCall(t) ==
  /\ pc[t] = "st_call"
  /\ Invoke(t, "stop", 0, "st_run")

\* The operations below return a status; what they do to the hardware, the
\* fault flags or the caller's buffers is not part of the control block.
StopRun(t) ==
  /\ pc[t] = "st_run"
  /\ \E r \in LowerStatus : Returned(t, r, limits, opmode)

(* PWRIOC_GET_STATE *)

\* state = (FAR struct powerled_state_s *)((uintptr_t)arg)
StateCall(t) ==
  /\ pc[t] = "gs_call"
  /\ Invoke(t, "state_get", arg[t], "gs_run")

StateRun(t) ==
  /\ pc[t] = "gs_run"
  /\ \E r \in LowerStatus : Returned(t, r, limits, opmode)

(* PWRIOC_SET_FAULT *)

\* uint8_t fault = ((uint8_t)arg)
FaultOfArg(a) == a % UINT8

FaultSetCall(t) ==
  /\ pc[t] = "sf_call"
  /\ Invoke(t, "fault_set", FaultOfArg(arg[t]), "sf_run")

FaultSetRun(t) ==
  /\ pc[t] = "sf_run"
  /\ \E r \in LowerStatus : Returned(t, r, limits, opmode)

(* PWRIOC_GET_FAULT *)

\* uint8_t *fault = ((uint8_t*)arg)
FaultGetCall(t) ==
  /\ pc[t] = "gf_call"
  /\ Invoke(t, "fault_get", arg[t], "gf_run")

FaultGetRun(t) ==
  /\ pc[t] = "gf_run"
  /\ \E r \in LowerStatus : Returned(t, r, limits, opmode)

(* PWRIOC_CLEAN_FAULT *)

FaultCleanCall(t) ==
  /\ pc[t] = "cf_call"
  /\ Invoke(t, "fault_clean", FaultOfArg(arg[t]), "cf_run")

FaultCleanRun(t) ==
  /\ pc[t] = "cf_run"
  /\ \E r \in LowerStatus : Returned(t, r, limits, opmode)

(* default *)

\* ret = dev->ops->ioctl(dev, cmd, arg)
OtherCall(t) ==
  /\ pc[t] = "x_call"
  /\ Invoke(t, "ioctl", <<cmd[t], arg[t]>>, "x_run")

OtherRun(t) ==
  /\ pc[t] = "x_run"
  /\ \E r \in LowerStatus : Returned(t, r, limits, opmode)

(***************************************************************************)
(* The caller takes the result; an open that returned OK leaves an open    *)
(* file behind.  The call's locals and ghosts are cleared.                 *)
(***************************************************************************)
Finish(t) ==
  /\ pc[t] = "done"
  /\ nfd' = IF op[t] = "open" /\ rv[t] = OK THEN nfd + 1 ELSE nfd
  /\ pc' = [pc EXCEPT ![t] = "idle"]
  /\ op' = [op EXCEPT ![t] = "none"]
  /\ cmd' = [cmd EXCEPT ![t] = "none"]
  /\ arg' = [arg EXCEPT ![t] = 0]
  /\ tmp' = [tmp EXCEPT ![t] = 0]
  /\ ret' = [ret EXCEPT ![t] = OK]
  /\ rv' = [rv EXCEPT ![t] = OK]
  /\ pre' = [pre EXCEPT ![t] = <<>>]
  /\ did' = [did EXCEPT ![t] = <<>>]
  /\ lower' = [lower EXCEPT ![t] = <<>>]
  /\ expect' = [expect EXCEPT ![t] = "none"]
  /\ atcall' = [atcall EXCEPT ![t] = "none"]
  /\ UNCHANGED <<lifeVars, ctrlVars, scenVars, regVars>>

\* The statements of powerled_open and powerled_close, and the caller's
\* taking of the result.
Lifecycle(t) ==
  \/ OpenCall(t) \/ OpenWaitOK(t) \/ OpenWaitFail(t) \/ OpenTmp(t)
  \/ OpenEnter(t) \/ OpenSetupReturn(t) \/ OpenLeave(t) \/ OpenPost(t)
  \/ CloseCall(t) \/ CloseWaitOK(t) \/ CloseWaitFail(t) \/ CloseCount(t)
  \/ CloseEnter(t) \/ CloseShutdownReturn(t) \/ CloseLeave(t)
  \/ ClosePost(t)
  \/ Finish(t)

\* The statements of the START, SET_MODE and SET_LIMITS cases.
CmdSteps(t) ==
  \/ StartCheckLock(t) \/ StartCheckCurrent(t) \/ StartCheckMode(t)
  \/ StartCall(t) \/ StartRun(t)
  \/ ModeCall(t) \/ ModeRun(t)
  \/ LimitsCheckLock(t) \/ LimitsCall(t) \/ LimitsRun(t)

\* powerled_ioctl called with START, SET_MODE or SET_LIMITS.
Dispatch(t) == IoctlCall(t) \/ CmdSteps(t)

\* The statements of the PWRIOC_SET_PARAMS case.
ParamCmds == {"PWRIOC_SET_PARAMS"}

ParamSteps(t) ==
  \/ ParamsCheckLock(t) \/ ParamsCheckRange(t)
  \/ ParamsCall(t) \/ ParamsRun(t)

DispatchParams(t) == IoctlCallOf(t, ParamCmds) \/ ParamSteps(t)

\* The statements of the cases that have no test, and of the default case.
\* OtherCmds are command identifiers that powerled_ioctl has no case for.
OtherCmds == {"OTHER_1", "OTHER_2"}
PlainCmds == {"PWRIOC_STOP", "PWRIOC_SET_MODE", "PWRIOC_GET_STATE",
              "PWRIOC_SET_FAULT", "PWRIOC_GET_FAULT", "PWRIOC_CLEAN_FAULT"}

DispatchPlain(t) ==
  \/ StopCall(t) \/ StopRun(t)
  \/ StateCall(t) \/ StateRun(t)
  \/ FaultSetCall(t) \/ FaultSetRun(t)
  \/ FaultGetCall(t) \/ FaultGetRun(t)
  \/ FaultCleanCall(t) \/ FaultCleanRun(t)
  \/ OtherCall(t) \/ OtherRun(t)

\* SET_PARAMS issued with the example parameters.
DispatchExample(t) ==
  IoctlIssue(t, "PWRIOC_SET_PARAMS", ExampleParams) \/ ParamSteps(t)

\* One argument for each command: the arguments a caller passes to bring
\* the LED up (FLASH mode, a current of 5, brightness 50), and a word that
\* does not fit a byte.
UsualArgs(c) ==
  IF c = "PWRIOC_SET_MODE" THEN {POWERLED_OPMODE_FLASH}
  ELSE IF c = "PWRIOC_SET_LIMITS" THEN {5}
  ELSE IF c = "PWRIOC_SET_PARAMS" THEN {ParamsOf(Num(50), Num(1000), Num(50))}
  ELSE IF c \in {"PWRIOC_START", "PWRIOC_STOP"} THEN {0}
  ELSE {259}

AllCmds == Cmds \cup ParamCmds \cup PlainCmds \cup OtherCmds

\* Every thread may open, close and issue any command (each command with
\* its usual argument).
Next ==
  \E t \in Threads :
    \/ Lifecycle(t)
    \/ \E c \in AllCmds : IoctlIssue(t, c, UsualArgs(c))
    \/ CmdSteps(t) \/ ParamSteps(t) \/ DispatchPlain(t)

Spec == Init /\ [][Next]_vars

\* Threads that only open and close.  powerled_ioctl reads and writes none
\* of ocount, closesem and the critical section, so the lifecycle is checked
\* on its own.
NextLife == \E t \in Threads : Lifecycle(t)

SpecLife == Init /\ [][NextLife]_vars

\* The scheduler runs every thread that can run, and setup and shutdown
\* return: a thread inside powerled_open or powerled_close that is not
\* blocked takes its next step (weak fairness).  sem_post hands the
\* semaphore to a thread blocked in sem_wait, so a waiter is not passed over
\* for ever while the guard keeps being released (strong fairness).  Nothing
\* obliges a caller to call, and a wait may or may not be interrupted.
Proceed(t) ==
  \/ OpenTmp(t) \/ OpenEnter(t) \/ OpenSetupReturn(t) \/ OpenLeave(t)
  \/ OpenPost(t)
  \/ CloseCount(t) \/ CloseEnter(t) \/ CloseShutdownReturn(t)
  \/ CloseLeave(t) \/ ClosePost(t)

Acquire(t) == OpenWaitOK(t) \/ CloseWaitOK(t)

Fairness ==
  \A t \in Threads : WF_vars(Proceed(t)) /\ SF_vars(Acquire(t))

SpecLive == Init /\ [][NextLife]_vars /\ Fairness

\* One caller alone, holding up to ManyOpens open files: more opens than
\* the uint8_t ocount can count.  Its sem_wait never blocks.
Opener == CHOOSE t \in Threads : \A u \in Threads : t <= u

NextMany ==
  \/ OpenCallUpTo(Opener, ManyOpens) \/ OpenWaitOK(Opener) \/ OpenTmp(Opener)
  \/ OpenEnter(Opener) \/ OpenSetupReturn(Opener) \/ OpenLeave(Opener)
  \/ OpenPost(Opener)
  \/ CloseCall(Opener) \/ CloseWaitOK(Opener) \/ CloseCount(Opener)
  \/ CloseEnter(Opener) \/ CloseShutdownReturn(Opener) \/ CloseLeave(Opener)
  \/ ClosePost(Opener)
  \/ Finish(Opener)

SpecMany == Init /\ [][NextMany]_vars

\* powerled_open and powerled_close entered with any value the uint8_t field
\* dev->ocount can hold (the ends of its range), with an open file to close.
OcountInputs == {0, 1, UINT8 - 2, UINT8 - 1}

InitContract == \E oc \in OcountInputs : InitWith(oc, IF oc = 0 THEN 0 ELSE 1)

SpecContract == InitContract /\ [][NextLife]_vars

\* Commands on a device that is open: the state one successful powerled_open
\* leaves behind, with one open file that is never closed.
InitOpened == InitWith(1, 1)

NextCmd == \E t \in Threads : Dispatch(t) \/ Finish(t)

SpecCmd == InitOpened /\ [][NextCmd]_vars

\* SET_PARAMS commands on a device that is open.
NextParams == \E t \in Threads : DispatchParams(t) \/ Finish(t)

SpecParams == InitOpened /\ [][NextParams]_vars

\* The commands that have no precondition, and unrecognized ones, on a
\* device that is open.
NextPlain ==
  \E t \in Threads :
    \/ IoctlCallOf(t, PlainCmds \cup OtherCmds)
    \/ ModeCall(t) \/ ModeRun(t)
    \/ DispatchPlain(t)
    \/ Finish(t)

SpecPlain == InitOpened /\ [][NextPlain]_vars

\* Every command that has a precondition (START, SET_LIMITS, SET_PARAMS,
\* with SET_MODE to change the mode) on a device that is open; SET_PARAMS
\* with the example parameters.
NextGuarded ==
  \E t \in Threads : Dispatch(t) \/ DispatchExample(t) \/ Finish(t)

SpecGuarded == InitOpened /\ [][NextGuarded]_vars

(***************************************************************************)
(* Properties.                                                             *)
(***************************************************************************)

\* pc values between the sem_wait that succeeded and the sem_post.
HeldPcs == {"o_tmp", "o_enter", "o_setup", "o_leave", "o_post",
            "c_count", "c_enter", "c_shutdown", "c_leave", "c_post"}
Held(t) == pc[t] \in HeldPcs
NoHolder == \A t \in Threads : ~Held(t)

Invoked(t, f) == \E i \in 1..Len(did[t]) : did[t][i][1] = f
Finished(t, o) == pc[t] = "done" /\ op[t] = o

\* C1: setup is invoked exactly once for each change of reference_count
\* from 0 to 1 and shutdown exactly once for each change from 1 to 0, and
\* neither at any other time: a call invokes at most one of them; setup is
\* invoked only by an open that found the count 0, shutdown only by a close
\* that found the count 1; and the open or close that made the change did
\* invoke it.
C1_OncePerTransition ==
  \A t \in Threads :
    /\ Len(did[t]) <= 1
    /\ Invoked(t, "setup") => op[t] = "open" /\ pre[t] = <<0>>
    /\ Invoked(t, "shutdown") => op[t] = "close" /\ pre[t] = <<1>>
    /\ Finished(t, "open") /\ pre[t] = <<0>> /\ lower[t] = <<OK>>
         => did[t] = << <<"setup", 0>> >>
    /\ Finished(t, "close") /\ pre[t] = <<1>>
         => did[t] = << <<"shutdown", 0>> >>

\* C2: on a fresh session whose setup succeeds, n >= 1 opens followed by n
\* closes make exactly one setup call (by the first open) and exactly one
\* shutdown call (by the last close); no close made while another opener is
\* outstanding invokes shutdown.  scen tracks that history: "opening" while
\* only opens were called, "closing" once closes follow the returned opens.
C2_OneSetupOneShutdown ==
  /\ (scen = "closing" /\ nfd = 0 /\ \A t \in Threads : pc[t] \in {"idle", "done"})
       => setups = 1 /\ shutdowns = 1
  /\ \A t \in Threads :
       /\ (scen # "off" /\ pc[t] = "o_setup") => setups = 1 /\ pre[t] = <<0>>
       /\ (scen # "off" /\ pc[t] = "c_shutdown")
            => /\ nfd = 0
               /\ \A u \in Threads \ {t} : op[u] = "close" => pc[u] = "done"

\* C3: an open that acquired the guard, did not overflow and (at count 0) had
\* setup succeed has increased reference_count by exactly one when it posts
\* the guard, also from a count >= 1; a close at a count > 1 has decreased it
\* by exactly one.
C3_OpenIncrements ==
  \A t \in Threads :
    /\ (pc[t] = "o_post" /\ pre[t] # <<>> /\ pre[t] # <<UINT8 - 1>>
          /\ (pre[t] = <<0>> => lower[t] = <<OK>>))
         => ocount = pre[t][1] + 1
    /\ (pc[t] = "c_post" /\ pre[t] # <<>> /\ pre[t][1] > 1)
         => ocount = pre[t][1] - 1

\* C4: whenever no thread holds the guard, the hardware is live (the last
\* lifecycle call to the lower half was a setup that succeeded) if and only
\* if reference_count > 0.
C4_LiveIffCounted == NoHolder => (hw = "live" <=> ocount > 0)

\* C4 witness: two files are open, the hardware is live and counted.
C4_Witness == NoHolder /\ hw = "live" /\ ocount > 0 /\ nfd = 2

\* C5: reference_count stays in 0..255, and no step wraps it around: not
\* from 255 to 0 by an open, not from 0 to 255 by a close; also with more
\* than 255 files open and with closes arriving at count 0.
NoWrap ==
  /\ ~(ocount = UINT8 - 1 /\ ocount' = 0)
  /\ ~(ocount = 0 /\ ocount' = UINT8 - 1)

C5_CountInRange == [](ocount \in 0..(UINT8 - 1)) /\ [][NoWrap]_vars

\* C5 witness: a close that found the count 0 has finished while more than
\* 255 opens have been made (255 files are still open, two were closed).
C5_Witness ==
  /\ Finished(Opener, "close") /\ pre[Opener] = <<0>>
  /\ nfd >= UINT8 - 1
  /\ ocount = 0

C7_WaitFailureReported ==
  \A t \in Threads :
    (pc[t] = "done" /\ op[t] \in {"open", "close"} /\ pre[t] = <<>>)
      => /\ rv[t] # OK
         /\ rv[t] \in {0 - e : e \in WaitErrnos}
         /\ did[t] = <<>>

\* C8: when the setup invoked by an open at count 0 fails, the count is
\* still 0 when the guard is released, the guard is released and the open
\* returns OK; every open that finds the count 0 invokes setup, so a later
\* open invokes it again.
SetupFailed(t) == op[t] = "open" /\ lower[t] # <<>> /\ lower[t] # <<OK>>

C8_SetupFailure ==
  \A t \in Threads :
    /\ (SetupFailed(t) /\ pc[t] \in {"o_leave", "o_post"}) => ocount = 0
    /\ (SetupFailed(t) /\ pc[t] = "done")
         => /\ rv[t] = OK
            /\ (closesem = 1 \/ \E u \in Threads \ {t} : Held(u))
    /\ (op[t] = "open" /\ pre[t] = <<0>>
          /\ pc[t] \in {"o_setup", "o_leave", "o_post", "done"})
         => did[t] = << <<"setup", 0>> >>

\* C8 witness: setup has failed before, one open returned OK all the same
\* (a file is open), and another open is inside setup again.
C8_Witness ==
  \E t \in Threads : pc[t] = "o_setup" /\ hw = "failed" /\ nfd > 0

\* C9: START returns -EPERM without invoking ops.start whenever limits.lock
\* is false, or limits.current <= 0, or the mode is neither CONTINUOUS nor
\* FLASH; otherwise it invokes ops.start exactly once and returns its status.
\* The control block is the one START was called with (no other thread
\* changed it before START had tested it).
StartDone(t) == pc[t] = "done" /\ cmd[t] = "PWRIOC_START"

C9_StartPolicy ==
  \A t \in Threads :
    /\ (StartDone(t) /\ expect[t] = "deny")
         => rv[t] = 0 - EPERM /\ did[t] = <<>>
    /\ (StartDone(t) /\ expect[t] = "allow")
         => /\ did[t] = << <<"start", 0>> >>
            /\ lower[t] # <<>>
            /\ rv[t] = lower[t][1]

\* C9 witness: a START that was allowed has returned the OK of ops.start
\* while one issued with the limits locked (at current 0, or in no mode) is
\* back, denied.
C9_Witness ==
  \E t, u \in Threads :
    /\ StartDone(t) /\ expect[t] = "allow" /\ rv[t] = OK
    /\ StartDone(u) /\ expect[u] = "deny" /\ rv[u] = 0 - EPERM
    /\ limits.lock

LimitsDone(t) == pc[t] = "done" /\ cmd[t] = "PWRIOC_SET_LIMITS"

\* C10 (as stated): SET_LIMITS returns -EPERM if and only if limits.lock was
\* true when it was issued; with the lock false it invokes ops.limits_set
\* with the caller's limits and returns its status.
C10_DeniedIffLocked ==
  \A t \in Threads :
    (LimitsDone(t) /\ expect[t] # "disturbed")
      => /\ rv[t] = 0 - EPERM <=> expect[t] = "deny"
         /\ expect[t] = "allow"
              => /\ did[t] = << <<"limits_set", arg[t]>> >>
                 /\ lower[t] # <<>>
                 /\ rv[t] = lower[t][1]

\* C10 (amended): SET_LIMITS rejects the command itself, returning -EPERM
\* without invoking ops.limits_set, if and only if limits.lock was true when
\* it was issued; with the lock false it invokes ops.limits_set once with the
\* caller's limits and returns its status, whatever that is (-EPERM too).
\* Only a lower-half operation changes limits.
LimitsWrittenByLowerHalf ==
  limits' # limits => \E t \in Threads : pc[t] = "l_run" /\ pc'[t] = "done"

C10_RejectedIffLocked ==
  /\ [](\A t \in Threads :
          /\ (LimitsDone(t) /\ expect[t] = "deny")
               => rv[t] = 0 - EPERM /\ did[t] = <<>>
          /\ (LimitsDone(t) /\ expect[t] = "allow")
               => /\ did[t] = << <<"limits_set", arg[t]>> >>
                  /\ lower[t] # <<>>
                  /\ rv[t] = lower[t][1])
  /\ [][LimitsWrittenByLowerHalf]_vars

\* C10 witness: a SET_LIMITS issued with the lock set was rejected, and one
\* issued with the lock clear was passed on and came back with -EPERM from
\* the lower half.
C10_Witness ==
  \E t, u \in Threads :
    /\ LimitsDone(t) /\ expect[t] = "deny" /\ rv[t] = 0 - EPERM /\ did[t] = <<>>
    /\ LimitsDone(u) /\ expect[u] = "allow" /\ rv[u] = 0 - EPERM

ParamsDone(t) == pc[t] = "done" /\ cmd[t] = "PWRIOC_SET_PARAMS"

\* C11: SET_PARAMS returns -EPERM without invoking ops.params_set if
\* params.lock is true, or brightness is outside [0,100], or frequency < 0,
\* or duty is outside [0,100]; with the lock false and the three values in
\* range it invokes ops.params_set once with the caller's parameters and
\* returns its status.  The lock is the one SET_PARAMS was called with (no
\* other thread changed it before SET_PARAMS had tested it).
C11_ParamsPolicy ==
  \A t \in Threads :
    /\ (ParamsDone(t) /\ expect[t] = "deny")
         => rv[t] = 0 - EPERM /\ did[t] = <<>>
    /\ (ParamsDone(t) /\ expect[t] = "allow")
         => /\ did[t] = << <<"params_set", arg[t]>> >>
            /\ lower[t] # <<>>
            /\ rv[t] = lower[t][1]

\* The same for parameters that are numbers (no NaN among them).
Numeric(a) == ~a.brightness.nan /\ ~a.frequency.nan /\ ~a.duty.nan

C11_ParamsPolicyNumeric ==
  \A t \in Threads :
    /\ (ParamsDone(t) /\ expect[t] = "deny" /\ Numeric(arg[t]))
         => rv[t] = 0 - EPERM /\ did[t] = <<>>
    /\ (ParamsDone(t) /\ expect[t] = "allow")
         => /\ did[t] = << <<"params_set", arg[t]>> >>
            /\ lower[t] # <<>>
            /\ rv[t] = lower[t][1]

\* C12: ops.params_set is never invoked in a state where params.lock is
\* already true, whatever the interleaving of concurrent SET_PARAMS
\* commands.  While ops.params_set runs (pc is "p_run"), atcall is the
\* command table's verdict at the instant of the invocation; for parameters
\* that are numbers and passed the range test it is "deny" exactly when
\* params.lock was true at that instant.
C12_NoCallOnceLocked ==
  \A t \in Threads :
    (pc[t] = "p_run" /\ Numeric(arg[t])) => atcall[t] = "allow"

\* C13: whenever the dispatcher rejects a command with -EPERM (a START,
\* SET_LIMITS or SET_PARAMS whose precondition is violated), no lower-half
\* operation is invoked for that command, and the step that rejects it
\* leaves reference_count, the guard and the control block unchanged.
\* A command is rejected by the dispatcher when its ret is -EPERM and no
\* lower-half operation has returned to it.
Rejected(t) == op[t] = "ioctl" /\ ret[t] = 0 - EPERM /\ lower[t] = <<>>

RejectionFrame ==
  \A t \in Threads :
    (op[t] = "ioctl" /\ ~Rejected(t) /\ Rejected(t)')
      => UNCHANGED <<ocount, closesem, critsec, hw, limits, opmode, param>>

C13_RejectionTouchesNothing ==
  /\ [](\A t \in Threads : Rejected(t) => did[t] = <<>> /\ atcall[t] = "none")
  /\ [][RejectionFrame]_vars

\* C13 witness: a START rejected by its third test (the mode) and a
\* SET_PARAMS rejected by its range test are back, with the limits locked.
C13_Witness ==
  \E t, u \in Threads :
    /\ StartDone(t) /\ Rejected(t) /\ limits.lock /\ limits.current > 0
    /\ ParamsDone(u) /\ Rejected(u) /\ ~param.lock

\* C14: every command without a precondition is always delegated to exactly
\* its own operation, exactly once, and the operation's status is returned
\* unchanged, success or failure: STOP to ops.stop, SET_MODE to ops.mode_set,
\* GET_STATE to ops.state_get, SET_FAULT to ops.fault_set, GET_FAULT to
\* ops.fault_get, CLEAN_FAULT to ops.fault_clean, and an unrecognized command
\* to ops.ioctl with the same command identifier and the argument unmodified.
OwnOp(c) ==
  IF c = "PWRIOC_STOP" THEN "stop"
  ELSE IF c = "PWRIOC_SET_MODE" THEN "mode_set"
  ELSE IF c = "PWRIOC_GET_STATE" THEN "state_get"
  ELSE IF c = "PWRIOC_SET_FAULT" THEN "fault_set"
  ELSE IF c = "PWRIOC_GET_FAULT" THEN "fault_get"
  ELSE IF c = "PWRIOC_CLEAN_FAULT" THEN "fault_clean"
  ELSE "ioctl"

PlainDone(t) == pc[t] = "done" /\ cmd[t] \in PlainCmds \cup OtherCmds

C14_PlainDelegated ==
  \A t \in Threads :
    /\ PlainDone(t)
         => /\ Len(did[t]) = 1
            /\ did[t][1][1] = OwnOp(cmd[t])
            /\ lower[t] # <<>>
            /\ rv[t] = lower[t][1]
    /\ (PlainDone(t) /\ cmd[t] \in OtherCmds)
         => did[t][1][2] = <<cmd[t], arg[t]>>
    /\ (cmd[t] \in PlainCmds \cup OtherCmds /\ pc[t] # "done")
         => rv[t] = OK /\ Len(did[t]) <= 1

\* C14 witness: an unrecognized command is back with the failure status of
\* ops.ioctl while a STOP is back with the OK of ops.stop.
C14_Witness ==
  \E t, u \in Threads :
    /\ PlainDone(t) /\ cmd[t] \in OtherCmds /\ rv[t] = 0 - EPERM
    /\ did[t] = << <<"ioctl", <<cmd[t], 259>> >> >>
    /\ PlainDone(u) /\ cmd[u] = "PWRIOC_STOP" /\ rv[u] = OK

Waiting(t) == pc[t] \in {"o_wait", "c_wait"}
WaitFailed(t) ==
  pc[t] = "done" /\ op[t] \in {"open", "close"} /\ pre[t] = <<>>
GuardFollowsHolder == closesem = IF NoHolder THEN 1 ELSE 0

\* C15 (as stated): open and close release the guard on every exit path on
\* which they acquired it: whenever no open or close is in progress the
\* guard's value is 1; and, setup and shutdown returning, every thread
\* blocked waiting for the guard eventually acquires it.
C15_AlwaysAcquires ==
  /\ [](GuardFollowsHolder)
  /\ \A t \in Threads : Waiting(t) ~> Held(t)

\* C15 (amended): the guard's value is 1 whenever no thread is between a
\* successful sem_wait and its sem_post (so also whenever no open or close
\* is in progress), and 0 while a thread is there; and, setup and shutdown
\* returning, every thread blocked waiting for the guard eventually acquires
\* it, unless its wait is interrupted: then it returns without the guard.
C15_GuardReleased ==
  /\ [](GuardFollowsHolder)
  /\ \A t \in Threads : Waiting(t) ~> (Held(t) \/ WaitFailed(t))

\* C15 witness: an open whose setup failed has released the guard and
\* returned, and a close that was waiting for it is now free to take it.
C15_Witness ==
  \E t, u \in Threads :
    /\ Finished(t, "open") /\ SetupFailed(t)
    /\ pc[u] = "c_wait" /\ closesem = 1

\* pc values at which a lower-half operation invoked by powerled_ioctl is in
\* progress, and those at which setup or shutdown is.
RunPcs == {"s_run", "m_run", "l_run", "p_run", "st_run", "gs_run", "sf_run",
           "gf_run", "cf_run", "x_run"}
LifePcs == {"o_setup", "c_shutdown"}

\* C16: in no reachable state is a lower-half operation invoked by the
\* command dispatcher in progress on one thread while setup or shutdown is
\* in progress on another thread.
C16_SetupExcludesCommands ==
  \A t, u \in Threads :
    ~(t # u /\ pc[t] \in LifePcs /\ pc[u] \in RunPcs)

\* C17: registration calls the registration mechanism, and so exposes the
\* device, only if all twelve required operations are set; with any of them
\* unset it takes the fatal path (and ends there once the unset operation
\* is checked) and the device is never exposed.  After a registration that
\* proceeds, reference_count is 0 and the guard is available (value 1);
\* if the registration mechanism fails, the guard is destroyed before the
\* failure is returned.
Proceeded == regpc \in {"r_register", "exposed", "r_destroy", "failed"}
Returning == regpc \in {"exposed", "failed"}

\* A step that returns a failure comes from sem_destroy.
DestroyedBeforeReturn ==
  (regpc # regpc' /\ regpc' \in {"exposed", "failed"} /\ ret'[Registrar] < 0)
    => (regpc = "r_destroy" /\ semlive' = "destroyed")

\* The fatal path and the two returns are final.
RegistrationEnds ==
  regpc \in {"panic", "exposed", "failed"} => regpc' = regpc

C17_Registration ==
  /\ [](Proceeded => ops = RequiredOps)
  /\ [](ops # RequiredOps
          => regpc \in {CheckOrder[i] : i \in 1..Len(CheckOrder)} \cup {"panic"})
  /\ [](regpc = "panic" => ops # RequiredOps)
  /\ [](regpc \in {"r_register", "exposed"}
          => ocount = 0 /\ closesem = 1 /\ semlive = "init")
  /\ [](regpc = "exposed" => rv[Registrar] = OK)
  /\ [](regpc = "failed"
          => semlive = "destroyed" /\ rv[Registrar] < 0
             /\ rv[Registrar] = ret[Registrar])
  /\ [][DestroyedBeforeReturn]_vars
  /\ [][RegistrationEnds]_vars

\* C17 witness: a registration of a complete table has passed the twelve
\* assertions and returned OK with the device exposed.
C17_Witness ==
  regpc = "exposed" /\ ops = RequiredOps /\ ocount = 0 /\ closesem = 1

\* A registration with ops.ioctl unset has taken the fatal path, at its
\* last assertion.
C17_FatalReached == regpc = "panic" /\ ops = RequiredOps \ {"ioctl"}

\* C18: setup and shutdown are only executed by a thread that holds the
\* guard and is inside the critical section; the critical section is
\* entered after the guard is acquired and left before it is released; at
\* most one thread is between acquisition and release, no two executions of
\* setup/shutdown overlap, and every write of reference_count is made by
\* the thread holding the guard.
Holders == {t \in Threads : Held(t)}
InCritical(t) == pc[t] \in {"o_setup", "o_leave", "c_shutdown", "c_leave"}

\* The guard is acquired and released outside the critical section.
GuardAroundCritical ==
  closesem' # closesem => critsec = 0 /\ critsec' = 0

\* reference_count is written by a step of the one thread holding the guard.
CountUnderGuard ==
  ocount' # ocount
    => \E t \in Threads :
         /\ Holders = {t} /\ closesem = 0
         /\ pc'[t] # pc[t]
         /\ \A u \in Threads \ {t} : pc'[u] = pc[u]

C18_GuardedLifecycle ==
  /\ [](Cardinality(Holders) <= 1)
  /\ [](Cardinality({t \in Threads : pc[t] \in LifePcs}) <= 1)
  /\ [](\A t \in Threads :
          /\ pc[t] \in LifePcs => Held(t) /\ closesem = 0 /\ critsec = t
          /\ critsec = t <=> InCritical(t))
  /\ [](critsec # 0 => closesem = 0)
  /\ [][GuardAroundCritical]_vars
  /\ [][CountUnderGuard]_vars

\* C18 witness: a close is inside shutdown, in the critical section with the
\* guard taken, while another thread's open waits for the guard.
C18_Witness ==
  \E t, u \in Threads :
    /\ pc[t] = "c_shutdown" /\ critsec = t /\ closesem = 0
    /\ pc[u] = "o_wait"

\* C19: shutdown is never invoked on hardware that is not set up: at every
\* point the number of shutdown invocations is at most the number of
\* successful setup invocations.  Setup is invoked only at count 0, so the
\* successful setups exceed the shutdowns by at most one, and by one exactly
\* when the last lifecycle call was a successful setup (hw = "live"); the
\* count is exceeded by the first shutdown invoked in any other state.
C19_ShutdownOnlyWhenSetUp ==
  \A t \in Threads : pc[t] = "c_shutdown" => hw = "live"

\* C20: ops.start is invoked only in a state where, at the instant of the
\* invocation, limits.lock is true, limits.current > 0 and the mode is
\* CONTINUOUS or FLASH, whatever SET_MODE and SET_LIMITS commands other
\* threads interleave with the START.  While ops.start runs (pc is
\* "s_run"), atcall is the command table's verdict on the control block at
\* the instant of the invocation.
C20_StartOnlyWhenArmed ==
  \A t \in Threads : pc[t] = "s_run" => atcall[t] = "allow"

=============================================================================
